---- MODULE Spec2Model ----
(***************************************************************************)
(* Agent runtime core of the AI marketing team: the sentinel's threat      *)
(* escalation engine, the per-agent worker loops with their task queues,   *)
(* and the process-wide `schedule` job list the workers tick.              *)
(***************************************************************************)
EXTENDS Integers, Sequences, FiniteSets, TLC

VARIABLES
    threat_level,            \* SecuritySentinel.threat_level
    active_countermeasures,  \* SecuritySentinel.active_countermeasures (a list)
    monitoring_intervals,    \* SecuritySentinel.monitoring_intervals
    executed,                \* how often each countermeasure action has run
    sent,                    \* _send_results calls of the most recent handler
    jobs,                    \* schedule.jobs: the default scheduler's job list
    now,                     \* wall clock, in seconds
    last_op,                 \* the most recent call or dispatch, with its arguments
    queue,                   \* task_queue of each agent
    running,                 \* self.running of each agent
    worker,                  \* each agent's worker thread: where it is in run()
    handled,                 \* ids of the tasks _process_task was called with
    caller,                  \* progress of the thread that called shutdown()
    next_id,                 \* number of the next task to be received
    registry,                \* AgentRegistry._agents: the object of each key
    agent_order,             \* AgentRegistry._agents: its keys in dict order
    campaign_data,           \* the warden's campaign_data: ids of the rows stored
    flushed,                 \* the CSV files the warden's shutdown() wrote
    tsq                      \* a ThreadSafeQueue and the threads calling it

sentinelVars == <<threat_level, active_countermeasures, monitoring_intervals,
                  executed, sent>>

runtimeVars == <<queue, running, worker, handled, caller, next_id>>

vars == <<threat_level, active_countermeasures, monitoring_intervals,
          executed, sent, jobs, now, last_op, queue, running, worker,
          handled, caller, next_id, registry, agent_order, campaign_data, flushed, tsq>>

----------------------------------------------------------------------------
(* Bounds of the exploration *)

\* the threat level is explored down to -MaxUnder
MaxUnder == 100

\* tasks received in one run
MaxTasks == 4

\* the clock is advanced up to MaxNow seconds while the agents are idle,
\* and up to MaxBusyNow seconds while they receive tasks
MaxNow == 11

MaxBusyNow == 5

----------------------------------------------------------------------------
(* Program constants *)

MaxLevel == 10
AlertLockdownLevel == 7
AlertIsolateLevel == 4
SuspiciousLockdownSeverity == 8
SuspiciousEnhanceSeverity == 5
DefaultSeverity == 1
AnalysisFrequency == 30

Agents == {"sentinel", "warden", "profiler"}

\* identifiers agents are registered under
AgentTypes == {"commander", "warden", "sentinel"}

\* the attributes _validate_agent_security asks for
RequiredCapabilities == {"crypto", "secure_comms", "threat_monitor"}

\* no object
NoInstance == [name |-> "none", attrs |-> {}, shutdown |-> "none",
               running |-> FALSE]

Categories == <<"network", "process", "performance", "integrity">>

CategorySet == {Categories[i] : i \in 1..Len(Categories)}

base_intervals ==
    [c \in CategorySet |->
        CASE c = "network" -> 5
          [] c = "process" -> 10
          [] c = "performance" -> 15
          [] c = "integrity" -> 30]

enhanced_intervals ==
    [c \in CategorySet |->
        CASE c = "network" -> 1
          [] c = "process" -> 2
          [] c = "performance" -> 5
          [] c = "integrity" -> 10]

LockdownMeasures ==
    <<"isolate_network", "suspend_non_critical", "freeze_assets",
      "enable_logging", "backup_critical">>

IsolateMeasures == <<"isolate_network", "suspend_non_critical">>

EnhanceMeasures == <<"enhanced_monitoring", "process_restrictions">>

MeasureActions ==
    {"isolate_network", "suspend_non_critical", "enhanced_monitoring",
     "process_restrictions", "freeze_assets", "enable_logging",
     "backup_critical"}

----------------------------------------------------------------------------
(* Helpers *)

Min(a, b) == IF a < b THEN a ELSE b

Max(a, b) == IF a > b THEN a ELSE b

Range(s) == {s[i] : i \in 1..Len(s)}

\* Python's `x in list`
Contains(s, x) == \E i \in 1..Len(s) : s[i] = x

----------------------------------------------------------------------------
(* The sentinel's state as one value, so that handlers compose *)

\* what a payload can decrypt to: text that is a JSON object, JSON that is not
\* an object (a quoted string), or text that is not JSON at all
NoObject == [type |-> "none", severity |-> 0]

Text(word) == [json |-> "invalid", word |-> word, object |-> NoObject]

\* a Fernet token is readable only with the key it was made with
NoPayload == [key |-> "none", text |-> Text("")]

\* the key of the MilitaryCrypto instance the agents share, and another key
Keys == {"team", "foreign"}

\* json.dumps of a dict, and of a str
json_dumps(object) == [json |-> "object", word |-> "", object |-> object]

json_dumps_str(word) == [json |-> "scalar", word |-> word, object |-> NoObject]

\* json.loads: raises on text that is not JSON
json_loads(text) ==
    IF text.json = "invalid"
    THEN [raised |-> TRUE, value |-> text]
    ELSE [raised |-> FALSE, value |-> text]

\* an encrypt that returns its input as it is
encrypt_null(key, text) == [key |-> "none", text |-> text]

\* MilitaryCrypto.encrypt
encrypt(key, text) == [key |-> key, text |-> text]

\* MilitaryCrypto.decrypt: Fernet raises InvalidToken unless the token was
\* made with this key
decrypt(key, token) ==
    IF token.key = key
    THEN [raised |-> FALSE, text |-> token.text]
    ELSE [raised |-> TRUE, text |-> Text("")]

NoTask == [id |-> 0, type |-> "none", severity |-> 0, encrypted |-> "absent",
           payload |-> NoPayload]

NoJob == [id |-> 0, owner |-> "none", cb |-> "none", interval |-> 0,
          next_run |-> 0]

JobIds(js) == {js[i].id : i \in 1..Len(js)}

\* the Job objects the workers still hold: the snapshot run_pending iterates
\* and the job being run
HeldIds ==
    UNION {JobIds(worker[a].pending) \cup
           (IF worker[a].job = NoJob THEN {} ELSE {worker[a].job.id}) :
           a \in Agents}

Sentinel ==
    [level |-> threat_level, acm |-> active_countermeasures,
     mi |-> monitoring_intervals, executed |-> executed, sent |-> <<>>,
     jobs |-> jobs, now |-> now, held |-> HeldIds]

\* a new Job object: an identity no live object has
FreshId(js, held) ==
    CHOOSE i \in 1..(Len(js) + Cardinality(held) + 1) :
        /\ i \notin JobIds(js) \cup held
        /\ \A k \in 1..(i - 1) : k \in JobIds(js) \cup held

\* schedule.every(n).seconds.do(cb): next_run = now + n, appended to the list
every_seconds_do(js, held, t, owner, cb, n) ==
    Append(js, [id |-> FreshId(js, held), owner |-> owner, cb |-> cb,
                interval |-> n, next_run |-> t + n])

\* _init_monitoring: one job per category, at its current interval
init_monitoring(S) ==
    LET reg[i \in 0..Len(Categories)] ==
            IF i = 0 THEN S.jobs
            ELSE every_seconds_do(reg[i - 1], S.held, S.now, "sentinel",
                                  Categories[i], S.mi[Categories[i]])
    IN [S EXCEPT !.jobs = reg[Len(Categories)]]

\* v * max(0.1, 1 - level * 0.05) rounded to the nearest integer instead of
\* truncated
scaled_interval_rounded(v, level) ==
    (v * Max(10, 100 - 5 * level) + 50) \div 100

\* int(v * max(0.1, 1 - level * 0.05)) in IEEE double arithmetic: the exact
\* quotient, except that 30 * (1 + 62 * 0.05) rounds to 122.99999999999999
scaled_interval(v, level) ==
    IF v = 30 /\ level = -62 THEN 122
    ELSE (v * Max(10, 100 - 5 * level)) \div 100

\* _adjust_monitoring without schedule.clear(): the jobs are registered on top
\* of the ones already there
adjust_monitoring_keeping(S) ==
    LET mi2 == [c \in CategorySet |->
                    Max(1, scaled_interval(base_intervals[c], S.level))]
    IN init_monitoring([S EXCEPT !.mi = mi2])

\* _adjust_monitoring: recompute every interval from the base table, clear the
\* process-wide job list and register the monitoring jobs again
adjust_monitoring(S) ==
    LET mi2 == [c \in CategorySet |->
                    Max(1, scaled_interval(base_intervals[c], S.level))]
    IN init_monitoring([S EXCEPT !.mi = mi2, !.jobs = <<>>])

\* _update_threat_level without the upper clamp
update_threat_level_unclamped(S, increment) ==
    LET new_level == S.level + increment
    IN IF new_level # S.level
       THEN adjust_monitoring([S EXCEPT !.level = new_level])
       ELSE S

\* _update_threat_level that lifts the countermeasures when the level falls
update_threat_level_relaxing(S, increment) ==
    LET new_level == Min(MaxLevel, S.level + increment)
    IN IF new_level # S.level
       THEN adjust_monitoring([S EXCEPT !.level = new_level,
                                        !.acm = IF new_level < S.level
                                                THEN <<>> ELSE @])
       ELSE S

\* _update_threat_level called with a str: `self.threat_level + increment`
\* raises TypeError before anything is assigned
update_threat_level_str(S) == [raised |-> TRUE, state |-> S]

\* _update_threat_level
update_threat_level(S, increment) ==
    LET new_level == Min(MaxLevel, S.level + increment)
    IN IF new_level # S.level
       THEN adjust_monitoring([S EXCEPT !.level = new_level])
       ELSE S

\* the dict _send_results serialises: type, content, origin (the timestamp
\* is left out)
ResultPayload(S, message_type) ==
    [type |-> message_type, content |-> [threat_level |-> S.level],
     origin |-> "sentinel"]

\* _send_results that puts the JSON text itself into the message
send_results_plain(S, recipient, message_type) ==
    [S EXCEPT !.sent =
        Append(@, [to |-> recipient, type |-> message_type,
                   threat_level |-> S.level, encrypted |-> TRUE,
                   payload |-> encrypt_null("team",
                                  json_dumps(ResultPayload(S, message_type)))])]

\* _send_results: the payload is serialised and encrypted, the message is
\* built around it and a line is logged
send_results(S, recipient, message_type) ==
    [S EXCEPT !.sent =
        Append(@, [to |-> recipient, type |-> message_type,
                   threat_level |-> S.level, encrypted |-> TRUE,
                   payload |-> encrypt("team",
                                  json_dumps(ResultPayload(S, message_type)))])]

run_action(S, a) == [S EXCEPT !.executed[a] = @ + 1]

\* _enhance_monitoring
enhance_monitoring(S) ==
    adjust_monitoring([S EXCEPT !.mi = enhanced_intervals])

\* the loop body of _activate_countermeasures without its membership test
activate_one_unchecked(S, measure) ==
    LET S1 == [S EXCEPT !.acm = Append(@, measure)]
    IN IF measure = "enhanced_monitoring"
       THEN enhance_monitoring(run_action(S1, measure))
       ELSE IF measure \in {"isolate_network", "suspend_non_critical",
                            "process_restrictions"}
       THEN run_action(S1, measure)
       ELSE S1

\* one iteration of the loop of _activate_countermeasures
activate_one(S, measure) ==
    IF Contains(S.acm, measure) THEN S
    ELSE LET S1 == [S EXCEPT !.acm = Append(@, measure)]
         IN IF measure = "enhanced_monitoring"
            THEN enhance_monitoring(run_action(S1, measure))
            ELSE IF measure \in {"isolate_network", "suspend_non_critical",
                                 "process_restrictions"}
            THEN run_action(S1, measure)
            ELSE S1

\* _activate_countermeasures
activate_countermeasures(S, measures) ==
    LET step[i \in 0..Len(measures)] ==
            IF i = 0 THEN S ELSE activate_one(step[i - 1], measures[i])
    IN step[Len(measures)]

\* one iteration of the loop of _activate_lockdown
lockdown_one(S, measure) ==
    IF Contains(S.acm, measure) THEN S
    ELSE LET S1 == [S EXCEPT !.acm = Append(@, measure)]
         IN IF measure \in {"freeze_assets", "enable_logging", "backup_critical"}
            THEN run_action(S1, measure)
            ELSE S1

\* _activate_lockdown
activate_lockdown(S) ==
    IF Contains(S.acm, "lockdown") THEN S
    ELSE LET step[i \in 0..Len(LockdownMeasures)] ==
                 IF i = 0 THEN S
                 ELSE lockdown_one(step[i - 1], LockdownMeasures[i])
         IN send_results(step[Len(LockdownMeasures)], "Commander",
                         "lockdown_activated")

\* _handle_threat_alert
handle_threat_alert(S, severity) ==
    LET S1 == update_threat_level(S, severity)
    IN IF S1.level >= AlertLockdownLevel THEN activate_lockdown(S1)
       ELSE IF S1.level >= AlertIsolateLevel
       THEN activate_countermeasures(S1, IsolateMeasures)
       ELSE S1

\* _handle_suspicious_activity that reads self.threat_level for the alert
\* before the update
handle_suspicious_activity_stale(S, category, severity) ==
    LET S1 == update_threat_level(S, severity)
        S2 == IF severity >= SuspiciousLockdownSeverity
              THEN activate_lockdown(S1)
              ELSE IF severity >= SuspiciousEnhanceSeverity
              THEN activate_countermeasures(S1, EnhanceMeasures)
              ELSE S1
        alert == send_results([S2 EXCEPT !.level = S.level], "Commander",
                              "security_alert")
    IN [S2 EXCEPT !.sent = alert.sent]

\* the thresholds of _handle_suspicious_activity applied to the resulting
\* level instead of the reported severity
handle_suspicious_activity_by_level(S, category, severity) ==
    LET S1 == update_threat_level(S, severity)
        S2 == IF S1.level >= SuspiciousLockdownSeverity
              THEN activate_lockdown(S1)
              ELSE IF S1.level >= SuspiciousEnhanceSeverity
              THEN activate_countermeasures(S1, EnhanceMeasures)
              ELSE S1
    IN send_results(S2, "Commander", "security_alert")

\* _handle_suspicious_activity
handle_suspicious_activity(S, category, severity) ==
    LET S1 == update_threat_level(S, severity)
        S2 == IF severity >= SuspiciousLockdownSeverity
              THEN activate_lockdown(S1)
              ELSE IF severity >= SuspiciousEnhanceSeverity
              THEN activate_countermeasures(S1, EnhanceMeasures)
              ELSE S1
    IN send_results(S2, "Commander", "security_alert")

----------------------------------------------------------------------------
(* Initial state: the agents as constructed at time 0 *)

InitJobs ==
    init_monitoring([jobs |-> every_seconds_do(<<>>, {}, 0, "warden",
                                               "periodic_analysis",
                                               AnalysisFrequency * 60),
                     now |-> 0, mi |-> base_intervals, held |-> {}]).jobs

\* no file has been written
NotFlushed == [written |-> FALSE, rows |-> {}]

\* the threads that call the ThreadSafeQueue
Threads == {"consumer", "producer1", "producer2"}

NoItem == "none"

\* ThreadSafeQueue(maxsize): an empty queue.Queue, a free Lock, no call in
\* progress
InitQueue ==
    [items |-> <<>>, lock |-> "none", pc |-> [t \in Threads |-> "idle"],
     timeout |-> [t \in Threads |-> FALSE],
     got |-> [t \in Threads |-> NoItem]]

InitWorker == [pc |-> "loop", task |-> NoTask, pending |-> <<>>, job |-> NoJob]

Init ==
    /\ threat_level = 0
    /\ active_countermeasures = <<>>
    /\ monitoring_intervals = base_intervals
    /\ executed = [a \in MeasureActions |-> 0]
    /\ sent = <<>>
    /\ jobs = InitJobs
    /\ now = 0
    /\ last_op = [op |-> "init"]
    /\ queue = [a \in Agents |-> <<>>]
    /\ running = [a \in Agents |-> TRUE]
    /\ worker = [a \in Agents |-> InitWorker]
    /\ handled = [a \in Agents |-> <<>>]
    /\ caller = [a \in Agents |-> "none"]
    /\ next_id = 1
    /\ registry = [t \in AgentTypes |-> NoInstance]
    /\ agent_order = <<>>
    /\ campaign_data = {}
    /\ flushed = NotFlushed
    /\ tsq = InitQueue

\* the sentinel's state after a handler
Commit(S) ==
    /\ S.level >= -MaxUnder
    /\ threat_level' = S.level
    /\ active_countermeasures' = S.acm
    /\ monitoring_intervals' = S.mi
    /\ executed' = S.executed
    /\ sent' = S.sent
    /\ jobs' = S.jobs

----------------------------------------------------------------------------
(* The escalation engine driven call by call *)

Deltas == {-100, -3, -2, 0, 5, 12, 15}

AlertSeverities == {DefaultSeverity, 3, 8, 12}

ActivitySeverities == {1, 4, 5, 8, 10}

\* update(delta): _update_threat_level called directly
Update(delta) ==
    /\ Commit(update_threat_level(Sentinel, delta))
    /\ last_op' = [op |-> "update", delta |-> delta, level |-> threat_level]
    /\ UNCHANGED <<now, runtimeVars,
                   registry, agent_order, campaign_data, flushed, tsq>>

\* update(delta) with a delta that is not a number
UpdateNonNumeric ==
    LET r == update_threat_level_str(Sentinel)
    IN /\ Commit(r.state)
       /\ last_op' = [op |-> "update_str", raised |-> r.raised,
                      level |-> threat_level]
       /\ UNCHANGED <<now, runtimeVars,
                   registry, agent_order, campaign_data, flushed, tsq>>

\* a threat_alert task is dispatched
ThreatAlert(severity) ==
    /\ Commit(handle_threat_alert(Sentinel, severity))
    /\ last_op' = [op |-> "threat_alert", severity |-> severity,
                   level |-> threat_level]
    /\ UNCHANGED <<now, runtimeVars,
                   registry, agent_order, campaign_data, flushed, tsq>>

\* a monitoring probe reports an anomaly
SuspiciousActivity(category, severity) ==
    /\ Commit(handle_suspicious_activity(Sentinel, category, severity))
    /\ last_op' = [op |-> "suspicious_activity", category |-> category,
                   severity |-> severity, level |-> threat_level]
    /\ UNCHANGED <<now, runtimeVars,
                   registry, agent_order, campaign_data, flushed, tsq>>

\* a lockdown task is dispatched
Lockdown ==
    /\ Commit(activate_lockdown(Sentinel))
    /\ last_op' = [op |-> "lockdown", level |-> threat_level]
    /\ UNCHANGED <<now, runtimeVars,
                   registry, agent_order, campaign_data, flushed, tsq>>

Next ==
    \/ \E d \in Deltas : Update(d)
    \/ UpdateNonNumeric
    \/ \E s \in AlertSeverities : ThreatAlert(s)
    \/ \E c \in {"network", "integrity"}, s \in ActivitySeverities :
          SuspiciousActivity(c, s)
    \/ Lockdown

Spec == Init /\ [][Next]_vars

----------------------------------------------------------------------------
(* The schedule library's default scheduler, shared by every agent *)

\* Job.should_run
should_run(job, t) == t >= job.next_run

\* sorted(jobs): by next_run, jobs with equal next_run keep their list order
InsertByNextRun(sorted, job) ==
    LET k == Cardinality({i \in 1..Len(sorted) :
                              sorted[i].next_run <= job.next_run})
    IN SubSeq(sorted, 1, k) \o <<job>> \o SubSeq(sorted, k + 1, Len(sorted))

SortedByNextRun(js) ==
    LET ins[i \in 0..Len(js)] ==
            IF i = 0 THEN <<>> ELSE InsertByNextRun(ins[i - 1], js[i])
    IN ins[Len(js)]

\* run_pending: the jobs that are due, in the order they will be run
runnable_jobs(js, t) ==
    SortedByNextRun(SelectSeq(js, LAMBDA j : should_run(j, t)))

\* Job.run after job_func returned: last_run = now, next_run = now + period.
\* The Job object is updated whether or not it is still in the list.
schedule_next_run(js, job, t) ==
    [i \in 1..Len(js) |->
        IF js[i].id = job.id
        THEN [js[i] EXCEPT !.next_run = t + js[i].interval]
        ELSE js[i]]

\* What a monitoring callback can find. The network and process probes report
\* the number of suspicious items; _is_process_whitelisted raises TypeError for
\* an unlisted process that has an exe path; _check_system_integrity reads
\* self.integrity_baseline, which no code sets.
SuspiciousCounts == {1, 5}

Quiet == [kind |-> "quiet", severity |-> 0]

Anomaly(s) == [kind |-> "anomaly", severity |-> s]

Raises == [kind |-> "raises", severity |-> 0]

ProbeResults(cb) ==
    CASE cb = "network" -> {Quiet} \cup {Anomaly(n) : n \in SuspiciousCounts}
      [] cb = "process" ->
            {Quiet, Raises} \cup {Anomaly(n * 2) : n \in SuspiciousCounts}
      [] cb = "performance" -> {Quiet, Anomaly(9), Anomaly(10)}
      [] cb = "integrity" -> {Raises}
      [] OTHER -> {Quiet}

\* the state the callback leaves behind when it returns
callback_effect(S, job, r) ==
    IF job.owner = "sentinel" /\ r.kind = "anomaly"
    THEN handle_suspicious_activity(S, job.cb, r.severity)
    ELSE S

----------------------------------------------------------------------------
(* The worker thread of an agent: run() *)

SetWorker(a, w) == worker' = [worker EXCEPT ![a] = w]

\* what the worker does after a job, or when no job is due: the next job of
\* its snapshot, or time.sleep and back to the loop test
AfterJob(w, rest) ==
    IF rest = <<>>
    THEN [w EXCEPT !.pc = "loop", !.pending = <<>>, !.job = NoJob]
    ELSE [w EXCEPT !.pc = "callback", !.pending = Tail(rest),
                   !.job = Head(rest)]

\* while self.running
WorkerCheck(a) ==
    /\ worker[a].pc = "loop"
    /\ SetWorker(a, [worker[a] EXCEPT
                        !.pc = IF running[a] THEN "get" ELSE "exited"])
    /\ UNCHANGED <<sentinelVars, jobs, now, last_op, queue, running, handled,
                   caller, next_id,
                   registry, agent_order, campaign_data, flushed, tsq>>

\* queue.get that leaves the task in the queue
WorkerPeek(a) ==
    /\ worker[a].pc = "get"
    /\ queue[a] # <<>>
    /\ SetWorker(a, [worker[a] EXCEPT !.pc = "process", !.task = Head(queue[a])])
    /\ UNCHANGED <<sentinelVars, jobs, now, last_op, queue, running, handled,
                   caller, next_id,
                   registry, agent_order, campaign_data, flushed, tsq>>

\* queue.get that returns the newest task
WorkerGetNewest(a) ==
    /\ worker[a].pc = "get"
    /\ queue[a] # <<>>
    /\ SetWorker(a, [worker[a] EXCEPT !.pc = "process",
                                      !.task = queue[a][Len(queue[a])]])
    /\ queue' = [queue EXCEPT ![a] = SubSeq(@, 1, Len(@) - 1)]
    /\ UNCHANGED <<sentinelVars, jobs, now, last_op, running, handled, caller,
                   next_id,
                   registry, agent_order, campaign_data, flushed, tsq>>

\* task = self.task_queue.get(timeout=1) returns the oldest task
WorkerGet(a) ==
    /\ worker[a].pc = "get"
    /\ queue[a] # <<>>
    /\ SetWorker(a, [worker[a] EXCEPT !.pc = "process", !.task = Head(queue[a])])
    /\ queue' = [queue EXCEPT ![a] = Tail(@)]
    /\ UNCHANGED <<sentinelVars, jobs, now, last_op, running, handled, caller,
                   next_id,
                   registry, agent_order, campaign_data, flushed, tsq>>

\* queue.Empty after the timeout: schedule.run_pending() picks the due jobs
\* of the process-wide list and starts the first one
WorkerIdle(a) ==
    /\ worker[a].pc = "get"
    /\ queue[a] = <<>>
    /\ SetWorker(a, AfterJob(worker[a], runnable_jobs(jobs, now)))
    /\ UNCHANGED <<sentinelVars, jobs, now, last_op, queue, running, handled,
                   caller, next_id,
                   registry, agent_order, campaign_data, flushed, tsq>>

\* job_func returns or raises. A return reschedules the job and goes on with
\* the snapshot; an exception leaves run_pending and run(): the thread ends.
CallbackEnd(a, r) ==
    /\ worker[a].pc = "callback"
    /\ r \in ProbeResults(worker[a].job.cb)
    /\ IF r.kind = "raises"
       THEN /\ SetWorker(a, [worker[a] EXCEPT !.pc = "dead", !.pending = <<>>,
                                              !.job = NoJob])
            /\ UNCHANGED <<sentinelVars, jobs>>
       ELSE LET S == callback_effect(Sentinel, worker[a].job, r)
            IN /\ S.level >= -MaxUnder
               /\ threat_level' = S.level
               /\ active_countermeasures' = S.acm
               /\ monitoring_intervals' = S.mi
               /\ executed' = S.executed
               /\ sent' = IF S.sent = <<>> THEN sent ELSE S.sent
               /\ jobs' = schedule_next_run(S.jobs, worker[a].job, now)
               /\ SetWorker(a, AfterJob(worker[a], worker[a].pending))
    /\ UNCHANGED <<now, last_op, queue, running, handled, caller, next_id,
                   registry, agent_order, campaign_data, flushed, tsq>>

\* time passes
AdvanceClock(step, limit) ==
    /\ now + step <= limit
    /\ now' = now + step
    /\ UNCHANGED <<sentinelVars, jobs, last_op, runtimeVars,
                   registry, agent_order, campaign_data, flushed, tsq>>

----------------------------------------------------------------------------
(* MilitaryCrypto and the decryption step of _process_task *)

\* the dict _decrypt_task returns when decrypt or json.loads raised
DecryptionFailed ==
    [kind |-> "object", type |-> "none", severity |-> 0, word |-> "",
     error |-> "decryption_failed"]

\* _decrypt_task without its try/except: the exception leaves _process_task
decrypt_task_unguarded(key, task) ==
    LET d == decrypt(key, task.payload)
        j == json_loads(d.text)
    IN IF d.raised \/ j.raised
       THEN [kind |-> "raised", type |-> "none", severity |-> 0, word |-> "",
             error |-> "exception"]
       ELSE [kind |-> j.value.json, type |-> j.value.object.type,
             severity |-> j.value.object.severity, word |-> j.value.word,
             error |-> "none"]

\* _decrypt_task: the value json.loads returns, or the error dict
decrypt_task(key, task) ==
    LET d == decrypt(key, task.payload)
        j == json_loads(d.text)
    IN IF d.raised \/ j.raised THEN DecryptionFailed
       ELSE [kind |-> j.value.json, type |-> j.value.object.type,
             severity |-> j.value.object.severity, word |-> j.value.word,
             error |-> "none"]

\* the value of `task` after the first statement of _process_task: the
\* decrypted value replaces the task when the task has an 'encrypted' key
effective_task(task) ==
    IF task.encrypted # "absent" THEN decrypt_task("team", task)
    ELSE [kind |-> "object", type |-> task.type, severity |-> task.severity,
          word |-> "", error |-> "none"]

\* the task types each _process_task has a branch for
KnownTypes(a) ==
    CASE a = "sentinel" ->
            {"security_scan", "threat_alert", "update_whitelist", "lockdown"}
      [] a = "warden" ->
            {"performance_report", "optimize_campaign", "generate_report",
             "predict_performance"}
      [] OTHER -> {"analyze_audience", "update_trends", "generate_persona"}

\* the branch _process_task takes: the handler of the type found in the
\* task after decryption, or the "Unknown task type" log line
selected_handler(a, task) ==
    LET t == effective_task(task)
    IN IF t.kind = "object" /\ t.type \in KnownTypes(a) THEN t.type
       ELSE "none"

----------------------------------------------------------------------------
(* Tasks: receive_message, _process_task and shutdown *)

\* tasks by the branch of _process_task they take; "chatter" is a type no
\* agent knows; security_scan reaches _scan_filesystem, which uses the glob
\* module the file never imports
PlainTask(type, severity) ==
    [type |-> type, severity |-> severity, encrypted |-> "absent",
     payload |-> NoPayload]

TaskKinds(a) ==
    IF a = "sentinel"
    THEN {PlainTask("threat_alert", 8), PlainTask("security_scan", 0)}
    ELSE IF a = "warden"
    THEN {PlainTask("performance_report", 0), PlainTask("chatter", 0)}
    ELSE {PlainTask("analyze_audience", 0), PlainTask("chatter", 0)}

\* whether _process_task(task) raises: task.get on a value that is not a
\* dict, or the sentinel's security_scan handler
handler_raises(a, task) ==
    \/ effective_task(task).kind # "object"
    \/ a = "sentinel" /\ selected_handler(a, task) = "security_scan"

\* the sentinel's state after _process_task(task)
process_task(S, task) ==
    LET h == selected_handler("sentinel", task)
    IN CASE h = "threat_alert" ->
               handle_threat_alert(S, effective_task(task).severity)
         [] h = "lockdown" -> activate_lockdown(S)
         [] OTHER -> S

\* the warden's campaign_data after _process_task(task): _record_metrics
\* appends the row of a performance_report
record_metrics(data, a, task) ==
    IF a = "warden" /\ ~handler_raises(a, task)
          /\ selected_handler(a, task) = "performance_report"
    THEN data \cup {task.id}
    ELSE data

\* receive_message: self.task_queue.put(message)
Receive(a, kind) ==
    /\ next_id <= MaxTasks
    /\ queue' = [queue EXCEPT ![a] =
                    Append(@, [id |-> next_id, type |-> kind.type,
                               severity |-> kind.severity,
                               encrypted |-> kind.encrypted,
                               payload |-> kind.payload])]
    /\ next_id' = next_id + 1
    /\ UNCHANGED <<sentinelVars, jobs, now, last_op, running, worker, handled,
                   caller,
                   registry, agent_order, campaign_data, flushed, tsq>>

\* self._process_task(task) returns or raises; run() catches queue.Empty only
ProcessTask(a) ==
    /\ worker[a].pc = "process"
    /\ IF handler_raises(a, worker[a].task)
       THEN /\ SetWorker(a, [worker[a] EXCEPT !.pc = "dead", !.task = NoTask])
            /\ UNCHANGED <<sentinelVars, jobs>>
       ELSE /\ SetWorker(a, [worker[a] EXCEPT !.pc = "loop", !.task = NoTask])
            /\ IF a = "sentinel"
               THEN Commit(process_task(Sentinel, worker[a].task))
               ELSE UNCHANGED <<sentinelVars, jobs>>
    /\ campaign_data' = record_metrics(campaign_data, a, worker[a].task)
    /\ last_op' = [op |-> "dispatch", agent |-> a, task |-> worker[a].task]
    /\ UNCHANGED <<now, queue, running, caller, next_id,
                   registry, agent_order, flushed, tsq>>

\* the dispatch of a task, with the task's number noted in `handled`
Dispatch(a) ==
    /\ ProcessTask(a)
    /\ handled' = [handled EXCEPT ![a] = Append(@, worker[a].task.id)]

\* shutdown(): self.running = False
ShutdownStart(a) ==
    /\ caller[a] = "none"
    /\ running' = [running EXCEPT ![a] = FALSE]
    /\ caller' = [caller EXCEPT ![a] = "draining"]
    /\ UNCHANGED <<sentinelVars, jobs, now, last_op, queue, worker, handled,
                   next_id,
                   registry, agent_order, campaign_data, flushed, tsq>>

\* shutdown() that joins first and writes afterwards: nothing is written
\* before the join
flush_after_join(a, data, files) == files

\* the warden's shutdown() writes the rows stored so far, one CSV file per
\* campaign; the other agents modelled keep no data
flush(a, data, files) ==
    IF a = "warden" THEN [written |-> TRUE, rows |-> data] ELSE files

\* shutdown(): the agent's cleanup before the join; the sentinel drops its
\* countermeasures, the warden and the infiltrator write their data to files
ShutdownCleanup(a) ==
    /\ caller[a] = "draining"
    /\ caller' = [caller EXCEPT ![a] = "joining"]
    /\ active_countermeasures' =
          IF a = "sentinel" THEN <<>> ELSE active_countermeasures
    /\ flushed' = flush(a, campaign_data, flushed)
    /\ UNCHANGED <<threat_level, monitoring_intervals, executed, sent, jobs,
                   now, last_op, queue, running, worker, handled, next_id,
                   registry, agent_order, campaign_data, tsq>>

\* self.thread.join(timeout=5) returns because the thread has ended
JoinReturn(a) ==
    /\ caller[a] = "joining"
    /\ worker[a].pc \in {"exited", "dead"}
    /\ caller' = [caller EXCEPT ![a] = "stopped"]
    /\ UNCHANGED <<sentinelVars, jobs, now, last_op, queue, running, worker,
                   handled, next_id,
                   registry, agent_order, campaign_data, flushed, tsq>>

\* a join without timeout never returns while the thread is alive
JoinForever(a) ==
    /\ FALSE
    /\ UNCHANGED vars

\* self.thread.join(timeout=5) returns because the 5 seconds are over; the
\* thread is left running
JoinTimeout(a) ==
    /\ caller[a] = "joining"
    /\ worker[a].pc \notin {"exited", "dead"}
    /\ caller' = [caller EXCEPT ![a] = "stopped"]
    /\ UNCHANGED <<sentinelVars, jobs, now, last_op, queue, running, worker,
                   handled, next_id,
                   registry, agent_order, campaign_data, flushed, tsq>>

\* the agents that receive tasks and are shut down in the runs explored
BusyAgents == {"sentinel", "warden"}

RuntimeNext ==
    \/ \E a \in BusyAgents : \E k \in TaskKinds(a) : Receive(a, k)
    \/ \E a \in BusyAgents : WorkerCheck(a)
    \/ \E a \in BusyAgents : WorkerGet(a)
    \/ \E a \in BusyAgents : WorkerIdle(a)
    \/ \E a \in BusyAgents : Dispatch(a)
    \/ \E a \in BusyAgents : ShutdownStart(a)
    \/ \E a \in BusyAgents : ShutdownCleanup(a)
    \/ \E a \in BusyAgents : JoinReturn(a)
    \/ \E a \in BusyAgents : JoinTimeout(a)

RuntimeSpec == Init /\ [][RuntimeNext]_vars

\* the steps of the worker thread of agent a around a task: the loop test,
\* queue.get and its timeout
WorkerStep(a) == WorkerCheck(a) \/ WorkerGet(a) \/ WorkerIdle(a)

MaxLive == 2

\* running agents that receive tasks and are never shut down
LiveNext ==
    \/ \E a \in BusyAgents : \E k \in TaskKinds(a) :
          next_id <= MaxLive /\ Receive(a, k)
    \/ \E a \in BusyAgents : WorkerCheck(a)
    \/ \E a \in BusyAgents : WorkerGet(a)
    \/ \E a \in BusyAgents : WorkerIdle(a)
    \/ \E a \in BusyAgents : Dispatch(a)

\* each worker is a thread of its own that the operating system keeps
\* running, and a handler that was entered returns or raises: Dispatch(a) is
\* enabled exactly while the worker is inside _process_task, so its weak
\* fairness is that the worker is outside _process_task again and again
LiveSpec ==
    /\ Init
    /\ [][LiveNext]_vars
    /\ \A a \in BusyAgents :
          /\ WF_vars(WorkerStep(a))
          /\ []<>(worker[a].pc # "process")

\* busy agents while time passes: dispatch and job runs interleave
ConcNext ==
    \/ \E a \in BusyAgents : \E k \in TaskKinds(a) : Receive(a, k)
    \/ \E a \in BusyAgents : WorkerCheck(a)
    \/ \E a \in BusyAgents : WorkerGet(a)
    \/ \E a \in BusyAgents : WorkerIdle(a)
    \/ \E a \in BusyAgents : Dispatch(a)
    \/ \E a \in BusyAgents : \E r \in ProbeResults(worker[a].job.cb) :
          CallbackEnd(a, r)
    \/ AdvanceClock(5, MaxBusyNow)

ConcSpec == Init /\ [][ConcNext]_vars

----------------------------------------------------------------------------
(* Producers that never stop: the queues are refilled while time passes *)

\* the tasks in a queue that the producers keep topped up
MaxBacklog == 1

\* the tasks of an agent whose handler returns
BusyKinds(a) == {k \in TaskKinds(a) : ~handler_raises(a, k)}

\* receive_message from a producer that sends again and again; the tasks are
\* not numbered
Produce(a, kind) ==
    /\ Len(queue[a]) < MaxBacklog
    /\ queue' = [queue EXCEPT ![a] =
                    Append(@, [id |-> 0, type |-> kind.type,
                               severity |-> kind.severity,
                               encrypted |-> kind.encrypted,
                               payload |-> kind.payload])]
    /\ UNCHANGED <<sentinelVars, jobs, now, last_op, running, worker, handled,
                   caller, next_id, registry, agent_order, campaign_data,
                   flushed, tsq>>

\* the dispatch of a task that is not numbered
DispatchAgain(a) ==
    /\ ProcessTask(a)
    /\ UNCHANGED handled

BusyNext ==
    \/ \E a \in BusyAgents : \E k \in BusyKinds(a) : Produce(a, k)
    \/ \E a \in BusyAgents : WorkerCheck(a)
    \/ \E a \in BusyAgents : WorkerGet(a)
    \/ \E a \in BusyAgents : WorkerIdle(a)
    \/ \E a \in BusyAgents : DispatchAgain(a)
    \/ \E a \in BusyAgents : \E r \in ProbeResults(worker[a].job.cb) :
          CallbackEnd(a, r)
    \/ AdvanceClock(5, MaxBusyNow)

\* each worker is a thread the operating system keeps running; a handler or
\* a callback that was entered returns or raises (ProcessTask and CallbackEnd
\* are enabled exactly while the worker is inside one); the producers and the
\* clock are under no obligation
BusySpec ==
    /\ Init
    /\ [][BusyNext]_vars
    /\ \A a \in BusyAgents :
          /\ WF_vars(WorkerStep(a))
          /\ []<>(worker[a].pc \notin {"process", "callback"})

----------------------------------------------------------------------------
(* Encrypted, malformed and unknown tasks sent to the sentinel and the warden *)

MaxSealed == 3

\* a task whose 'encrypted' key is present, with the given payload
SealedTask(type, payload) ==
    [type |-> type, severity |-> 0, encrypted |-> "true", payload |-> payload]

Ping == Text("ping")

\* a task in the clear whose 'encrypted' key is present with the value False
UnsealedTask(type) ==
    [type |-> type, severity |-> 0, encrypted |-> "false", payload |-> NoPayload]

\* encrypt("ping"), a token of another key, bytes that are no token, the
\* encrypted JSON of a whole task, the encrypted JSON of a string, and a
\* lockdown task flagged encrypted = False
SealedKinds(a) ==
    IF a = "sentinel"
    THEN {SealedTask("threat_alert", encrypt("team", Ping)),
          SealedTask("threat_alert",
                     encrypt("foreign",
                             json_dumps([type |-> "lockdown", severity |-> 0]))),
          SealedTask("lockdown", NoPayload),
          SealedTask("none",
                     encrypt("team",
                             json_dumps([type |-> "threat_alert",
                                         severity |-> 3]))),
          SealedTask("threat_alert", encrypt("team", json_dumps_str("ping"))),
          UnsealedTask("lockdown"),
          PlainTask("chatter", 0)}
    ELSE {SealedTask("performance_report", encrypt("team", Ping)),
          PlainTask("chatter", 0)}

SealedNext ==
    \/ \E a \in BusyAgents : \E k \in SealedKinds(a) :
          next_id <= MaxSealed /\ Receive(a, k)
    \/ \E a \in BusyAgents : WorkerCheck(a)
    \/ \E a \in BusyAgents : WorkerGet(a)
    \/ \E a \in BusyAgents : WorkerIdle(a)
    \/ \E a \in BusyAgents : Dispatch(a)

SealedSpec == Init /\ [][SealedNext]_vars

----------------------------------------------------------------------------
(* AgentRegistry *)

\* objects offered for registration: one object for each set of attributes,
\* whose shutdown() returns, and two objects with every attribute, one whose
\* shutdown() returns and one whose shutdown() raises
Object(name, attrs, shutdown) ==
    [name |-> name, attrs |-> attrs, shutdown |-> shutdown, running |-> TRUE]

Instances ==
    {Object("first", c, "returns") : c \in SUBSET RequiredCapabilities}
       \cup {Object("second", RequiredCapabilities, b) :
                b \in {"returns", "raises"}}

\* validation that accepts any two of the three attributes
validate_agent_security_lax(instance) ==
    Cardinality(instance.attrs \cap RequiredCapabilities) >= 2

\* _validate_agent_security: all three hasattr checks
validate_agent_security(instance) ==
    /\ "crypto" \in instance.attrs
    /\ "secure_comms" \in instance.attrs
    /\ "threat_monitor" \in instance.attrs

\* cls._agents[agent_type] = instance: a new key goes to the end of the dict,
\* an existing key keeps its place
dict_set_order(order, agent_type) ==
    IF Contains(order, agent_type) THEN order ELSE Append(order, agent_type)

\* register_agent: SecurityError unless validated, else stored under the type
register_agent(agent_type, instance) ==
    /\ IF ~validate_agent_security(instance)
       THEN /\ last_op' = [op |-> "register", agent_type |-> agent_type,
                           instance |-> instance, raised |-> "SecurityError"]
            /\ UNCHANGED <<registry, agent_order>>
       ELSE /\ registry' = [registry EXCEPT ![agent_type] = instance]
            /\ agent_order' = dict_set_order(agent_order, agent_type)
            /\ last_op' = [op |-> "register", agent_type |-> agent_type,
                           instance |-> instance, raised |-> "none"]
    /\ UNCHANGED <<sentinelVars, jobs, now, runtimeVars,
                   campaign_data, flushed, tsq>>

\* get_agent: ValueError for a type that is not registered
get_agent(agent_type) ==
    /\ last_op' = [op |-> "get", agent_type |-> agent_type,
                   instance |-> registry[agent_type],
                   raised |-> IF ~Contains(agent_order, agent_type)
                              THEN "ValueError" ELSE "none"]
    /\ UNCHANGED <<sentinelVars, jobs, now, runtimeVars, registry,
                   agent_order, campaign_data, flushed, tsq>>

\* instance.shutdown(): the agents clear self.running first; what follows
\* (flushing files, joining) may raise
instance_shutdown(instance) == [instance EXCEPT !.running = FALSE]

\* the keys secure_shutdown reaches when nothing catches the exception of a
\* shutdown(): those up to the first object whose shutdown() raises
reached_unguarded(reg, order) ==
    LET raising == {i \in 1..Len(order) : reg[order[i]].shutdown = "raises"}
    IN IF raising = {} THEN order
       ELSE SubSeq(order, 1, CHOOSE i \in raising : \A j \in raising : i <= j)

\* secure_shutdown without its try/except
secure_shutdown_unguarded ==
    LET reached == reached_unguarded(registry, agent_order)
    IN /\ registry' = [t \in AgentTypes |->
                          IF Contains(reached, t)
                          THEN instance_shutdown(registry[t])
                          ELSE registry[t]]
       /\ last_op' = [op |-> "secure_shutdown", called |-> reached,
                      failed |-> {t \in Range(reached) :
                                     registry[t].shutdown = "raises"},
                      raised |-> IF reached = agent_order THEN "none"
                                 ELSE "Exception"]
       /\ UNCHANGED <<sentinelVars, jobs, now, runtimeVars, agent_order, campaign_data, flushed, tsq>>

\* secure_shutdown: shutdown() of every entry in dict order; an Exception
\* is logged and the loop goes on; no entry is removed
secure_shutdown ==
    /\ registry' = [t \in AgentTypes |->
                       IF Contains(agent_order, t)
                       THEN instance_shutdown(registry[t])
                       ELSE registry[t]]
    /\ last_op' = [op |-> "secure_shutdown", called |-> agent_order,
                   failed |-> {t \in Range(agent_order) :
                                  registry[t].shutdown = "raises"},
                   raised |-> "none"]
    /\ UNCHANGED <<sentinelVars, jobs, now, runtimeVars, agent_order, campaign_data, flushed, tsq>>

RegistryNext ==
    \/ \E t \in AgentTypes, i \in Instances : register_agent(t, i)
    \/ \E t \in AgentTypes : get_agent(t)
    \/ secure_shutdown

RegistrySpec == Init /\ [][RegistryNext]_vars

----------------------------------------------------------------------------
(* MilitaryCrypto called directly: encrypt and decrypt on chosen strings *)

Words == {"", "a", "ping", "Top secret marketing data",
          "invalid_encrypted_data", "gAAAAABlXrX8"}

\* the strings handed to encrypt: plain words, JSON strings and JSON objects
Strings ==
    {Text(w) : w \in Words} \cup {json_dumps_str(w) : w \in Words}
       \cup {json_dumps([type |-> t, severity |-> 8]) :
                t \in {"threat_alert", "security_scan", "report"}}

\* a str that no Fernet produced, handed to decrypt as if it were a token
AsToken(text) == [key |-> "none", text |-> text]

\* crypto.encrypt(x)
Encrypt(key, text) ==
    /\ last_op' = [op |-> "encrypt", key |-> key, text |-> text,
                   token |-> encrypt(key, text)]
    /\ UNCHANGED <<sentinelVars, jobs, now, runtimeVars, registry,
                   agent_order, campaign_data, flushed, tsq>>

\* crypto.decrypt(encrypt(x)) with the token of the preceding call, under this
\* key or under another
DecryptLast(key) ==
    /\ last_op.op = "encrypt"
    /\ last_op' = [op |-> "decrypt", key |-> key, made_by |-> last_op.key,
                   plain |-> last_op.text, token |-> last_op.token,
                   result |-> decrypt(key, last_op.token)]
    /\ UNCHANGED <<sentinelVars, jobs, now, runtimeVars, registry,
                   agent_order, campaign_data, flushed, tsq>>

\* crypto.decrypt(s) on a str that is no token
DecryptArbitrary(key, text) ==
    /\ last_op' = [op |-> "decrypt", key |-> key, made_by |-> "nobody",
                   plain |-> text, token |-> AsToken(text),
                   result |-> decrypt(key, AsToken(text))]
    /\ UNCHANGED <<sentinelVars, jobs, now, runtimeVars, registry,
                   agent_order, campaign_data, flushed, tsq>>

CryptoNext ==
    \/ \E k \in Keys, x \in Strings : Encrypt(k, x)
    \/ \E k \in Keys : DecryptLast(k)
    \/ \E k \in Keys, x \in Strings : DecryptArbitrary(k, x)

CryptoSpec == Init /\ [][CryptoNext]_vars

----------------------------------------------------------------------------
(* ThreadSafeQueue: a queue.Queue behind a Lock of its own *)

\* the maxsize the queue is built with
QueueMaxsize == 1

SetQueue(q) ==
    /\ tsq' = q
    /\ UNCHANGED <<sentinelVars, jobs, now, last_op, runtimeVars, registry,
                   agent_order, campaign_data, flushed>>

\* a thread calls put(item, block=True, timeout) and reaches `with self.lock`
put_call(t, timeout) ==
    /\ tsq.pc[t] = "idle"
    /\ SetQueue([tsq EXCEPT !.pc[t] = "put_lock", !.timeout[t] = timeout,
                            !.got[t] = NoItem])

\* a thread calls get(block=True, timeout) and reaches `with self.lock`
get_call(t, timeout) ==
    /\ tsq.pc[t] = "idle"
    /\ SetQueue([tsq EXCEPT !.pc[t] = "get_lock", !.timeout[t] = timeout,
                            !.got[t] = NoItem])

\* with self.lock: the thread enters when no thread holds the lock
lock_acquire(t) ==
    /\ tsq.pc[t] \in {"put_lock", "get_lock"}
    /\ tsq.lock = "none"
    /\ SetQueue([tsq EXCEPT !.lock = t,
                            !.pc[t] = IF @ = "put_lock" THEN "put_inner"
                                      ELSE "get_inner"])

\* self.queue.put(item, block, timeout) returns once there is room; the
\* with block ends and the lock is released
queue_put(t) ==
    /\ tsq.pc[t] = "put_inner"
    /\ Len(tsq.items) < QueueMaxsize
    /\ SetQueue([tsq EXCEPT !.items = Append(@, t), !.lock = "none",
                            !.pc[t] = "idle"])

\* self.queue.get(block, timeout) returns once there is an item; the with
\* block ends and the lock is released
queue_get(t) ==
    /\ tsq.pc[t] = "get_inner"
    /\ tsq.items # <<>>
    /\ SetQueue([tsq EXCEPT !.items = Tail(@), !.got[t] = Head(tsq.items),
                            !.lock = "none", !.pc[t] = "idle"])

\* the timeout of a blocked call is over: queue.Full or queue.Empty leaves
\* the with block, which releases the lock
queue_timeout(t) ==
    /\ tsq.timeout[t]
    /\ \/ tsq.pc[t] = "put_inner" /\ Len(tsq.items) >= QueueMaxsize
       \/ tsq.pc[t] = "get_inner" /\ tsq.items = <<>>
    /\ SetQueue([tsq EXCEPT !.lock = "none", !.pc[t] = "idle"])

\* a step of a thread that is inside put or get
ThreadStep(t) ==
    lock_acquire(t) \/ queue_put(t) \/ queue_get(t) \/ queue_timeout(t)

Producers == Threads \ {"consumer"}

QueueNext ==
    \/ \E t \in Producers, timeout \in BOOLEAN : put_call(t, timeout)
    \/ \E timeout \in BOOLEAN : get_call("consumer", timeout)
    \/ \E t \in Threads : lock_acquire(t)
    \/ \E t \in Threads : queue_put(t)
    \/ \E t \in Threads : queue_get(t)
    \/ \E t \in Threads : queue_timeout(t)

QueueSpec == Init /\ [][QueueNext]_vars

----------------------------------------------------------------------------
(* Idle agents: the workers tick the scheduler while time passes *)

SchedNext ==
    \/ \E a \in Agents : WorkerCheck(a)
    \/ \E a \in Agents : WorkerIdle(a)
    \/ \E a \in Agents : \E r \in ProbeResults(worker[a].job.cb) :
          CallbackEnd(a, r)
    \/ AdvanceClock(1, MaxNow)

SchedSpec == Init /\ [][SchedNext]_vars

----------------------------------------------------------------------------
(* Idle agents that are shut down while time passes *)

DrainNext ==
    \/ \E a \in Agents : WorkerCheck(a)
    \/ \E a \in Agents : WorkerIdle(a)
    \/ \E a \in Agents : \E r \in ProbeResults(worker[a].job.cb) :
          CallbackEnd(a, r)
    \/ AdvanceClock(5, MaxBusyNow)
    \/ \E a \in BusyAgents : ShutdownStart(a)
    \/ \E a \in BusyAgents : ShutdownCleanup(a)
    \/ \E a \in BusyAgents : JoinReturn(a)
    \/ \E a \in BusyAgents : JoinTimeout(a)

DrainSpec == Init /\ [][DrainNext]_vars

----------------------------------------------------------------------------
(* Claims about the task queue and the lifecycle *)

Ids(q) == [i \in 1..Len(q) |-> q[i].id]

NoDuplicates(s) == \A i, j \in 1..Len(s) : i # j => s[i] # s[j]

Increasing(s) == \A i, j \in 1..Len(s) : i < j => s[i] < s[j]

InHand(a) ==
    IF worker[a].pc = "process" THEN <<worker[a].task.id>> ELSE <<>>

\* C3: every task is consumed at most once: no task is dispatched twice, a
\* task that was dequeued is in the worker's hand or dispatched and no longer
\* in the queue, and only received tasks are dispatched; also when shutdown()
\* is called while tasks remain queued.
C3_AtMostOnce ==
    \A a \in Agents :
        /\ NoDuplicates(handled[a] \o InHand(a) \o Ids(queue[a]))
        /\ Range(handled[a] \o InHand(a)) \subseteq 1..(next_id - 1)
        /\ worker[a].pc = "process" <=> worker[a].task # NoTask

\* shutdown() has returned after one task was dispatched and with three
\* tasks still queued
C3_Witness ==
    \E a \in Agents :
        /\ caller[a] = "stopped"
        /\ Len(handled[a]) = 1
        /\ Len(queue[a]) = 3

\* C4: per agent, tasks are dispatched in the order receive was called:
\* the dispatched tasks, the task in hand and the queued tasks are in
\* increasing order of receipt.
C4_Fifo ==
    \A a \in Agents : Increasing(handled[a] \o InHand(a) \o Ids(queue[a]))

\* an agent has dispatched three tasks
C4_Witness == \E a \in Agents : Len(handled[a]) = 3

\* C5: receive enqueues while the runtime is not Stopped; once shutdown()
\* has stopped the runtime, every receive fails and enqueues nothing.
C5_StoppedRejectsReceive ==
    [][\A a \in Agents :
          caller[a] = "stopped" => Len(queue'[a]) <= Len(queue[a])]_vars

Lifecycle(a) ==
    IF caller[a] = "stopped" THEN 3 ELSE IF ~running[a] THEN 2 ELSE 1

C37_CleanupFinal ==
    /\ caller["sentinel"] = "stopped" => active_countermeasures = <<>>
    /\ flushed.written => campaign_data \subseteq flushed.rows

InPut(t) == tsq.pc[t] \in {"put_lock", "put_inner"}

InGet(t) == tsq.pc[t] \in {"get_lock", "get_inner"}

\* C38: the queue is deadlock-free between the consumer and the producers:
\* while a put and a get are both in progress, one of the threads can take a
\* step, so a get blocked on the empty queue does not keep a put from
\* completing, nor a put blocked on the full queue a get.
C38_DeadlockFree ==
    ((\E t \in Threads : InPut(t)) /\ (\E t \in Threads : InGet(t))) =>
       \E t \in Threads : ENABLED ThreadStep(t)

----------------------------------------------------------------------------
(* Claims about the scheduler *)

Firing(a) == worker[a].pc = "callback"

\* worker a begins a job in this step
StartsJob(a) ==
    /\ worker'[a].pc = "callback"
    /\ worker[a].pc = "callback" => worker'[a].job # worker[a].job

\* worker a leaves the job it was running in this step
EndsJob(a) == Firing(a) /\ worker'[a] # worker[a]

\* the jobs a worker took in one run_pending and has not finished
Snapshot(a) ==
    (IF Firing(a) THEN <<worker[a].job.id>> ELSE <<>>) \o Ids(worker[a].pending)

\* C32: once shutdown() of an agent has been called, no scheduled job of
\* that agent is started, by its own worker or by another one.
C32_NoJobAfterShutdown ==
    [][\A a \in Agents : \A b \in Agents :
          (~running[b] /\ StartsJob(a)) => worker'[a].job.owner # b]_vars

\* a job of agent a is due
DueJob(a) ==
    \E i \in 1..Len(jobs) : jobs[i].owner = a /\ jobs[i].next_run <= now

\* C39: while the agent is running, a job of the agent that is due is
\* eventually fired by a worker, even when producers keep the queue
\* non-empty.
C39_DueJobEventuallyFires ==
    \A a \in BusyAgents :
        (running[a] /\ DueJob(a)) ~>
           (\E b \in Agents : Firing(b) /\ worker[b].job.owner = a)

\* C7: a job with interval I does not fire before I has passed since it was
\* registered or last rescheduled; a tick fires a due job once, and no second
\* firing of the job begins while one is in progress; when the firing ends
\* the job, if still registered, is due a further I out.
C7_FiresOncePerInterval ==
    /\ [](\A a \in Agents : Firing(a) => worker[a].job.next_run <= now)
    /\ [](\A a \in Agents : NoDuplicates(Snapshot(a)))
    /\ [](\A a, b \in Agents :
            (a # b /\ Firing(a) /\ Firing(b)) =>
               worker[a].job.id # worker[b].job.id)
    /\ [][\A a \in Agents :
            EndsJob(a) =>
               \A i \in 1..Len(jobs') :
                  jobs'[i].id = worker[a].job.id =>
                     jobs'[i].next_run >= now + jobs'[i].interval]_vars

\* C8: when a firing ends, the next-due time of the job (if it is still
\* registered) is the current time plus its interval, which is strictly later
\* than its next-due time before the firing; a tick that comes late fires the
\* job once.
C8_NextDueFromNow ==
    /\ [][\A a \in Agents :
            EndsJob(a) =>
               \A i \in 1..Len(jobs), k \in 1..Len(jobs') :
                  (jobs[i].id = worker[a].job.id /\ jobs'[k].id = jobs[i].id) =>
                     /\ jobs'[k].next_run = now + jobs[i].interval
                     /\ jobs'[k].next_run > jobs[i].next_run]_vars
    /\ [](\A a \in Agents : NoDuplicates(Snapshot(a)))

\* C9: an exception raised by a callback does not end the worker: a worker
\* that is in a callback is still running after it.
C9_CallbackExceptionContained ==
    [][\A a \in Agents : Firing(a) => worker'[a].pc # "dead"]_vars

\* C10: an agent's callbacks are run only by that agent's worker, so no two
\* callbacks of one agent run at the same time, and none runs while that
\* agent's worker is dispatching a task.
C10_CallbacksOnOwnWorker ==
    \A a \in Agents :
        /\ Firing(a) => worker[a].job.owner = a
        /\ \A b \in Agents \ {a} :
              Firing(b) =>
                 /\ Firing(a) => worker[a].job.owner # worker[b].job.owner
                 /\ worker[a].pc = "process" => worker[b].job.owner # a

----------------------------------------------------------------------------
(* Claims about the registry *)

\* C20: registering an object that lacks one of the three required
\* attributes raises the security error and leaves the registry as it was;
\* registering an object that has all three succeeds, and get_agent then
\* returns that object for the identifier.
C20_RegistrationValidated ==
    /\ [][last_op'.op = "register" =>
            IF RequiredCapabilities \subseteq last_op'.instance.attrs
            THEN /\ last_op'.raised = "none"
                 /\ registry'[last_op'.agent_type] = last_op'.instance
                 /\ \A t \in AgentTypes \ {last_op'.agent_type} :
                       registry'[t] = registry[t]
            ELSE /\ last_op'.raised = "SecurityError"
                 /\ registry' = registry]_vars
    /\ [][last_op'.op = "get" =>
            /\ last_op'.instance = registry[last_op'.agent_type]
            /\ registry[last_op'.agent_type] # NoInstance =>
                  last_op'.raised = "none"
            /\ registry' = registry]_vars

\* an object lacking one attribute was refused while another object is
\* registered under that identifier
C20_Witness ==
    /\ last_op.op = "register"
    /\ last_op.raised = "SecurityError"
    /\ Cardinality(last_op.instance.attrs) = 2
    /\ registry[last_op.agent_type] # NoInstance
    /\ registry[last_op.agent_type].name # last_op.instance.name

\* C21: registering an identifier that is already registered fails, and the
\* object registered before stays mapped to the identifier.
C21_DuplicateRejected ==
    [][(last_op'.op = "register"
           /\ Contains(agent_order, last_op'.agent_type)) =>
          /\ last_op'.raised # "none"
          /\ registry'[last_op'.agent_type] = registry[last_op'.agent_type]]_vars

\* C22: secure_shutdown calls shutdown() on every registered object, in dict
\* order; a shutdown() that raises is caught, the error does not leave
\* secure_shutdown and every other object is still shut down.
C22_ShutdownBestEffort ==
    [][last_op'.op = "secure_shutdown" =>
          /\ last_op'.called = agent_order
          /\ last_op'.raised = "none"
          /\ \A t \in Range(agent_order) : ~registry'[t].running
          /\ \A t \in AgentTypes \ Range(agent_order) :
                registry'[t] = registry[t]]_vars

\* a shutdown() raised and an object later in the dict was shut down after it
C22_Witness ==
    /\ last_op.op = "secure_shutdown"
    /\ \E i, j \in 1..Len(last_op.called) :
          /\ i < j
          /\ last_op.called[i] \in last_op.failed
          /\ last_op.called[j] \notin last_op.failed
          /\ ~registry[last_op.called[j]].running

\* C23: after secure_shutdown the entries of the objects it shut down are
\* gone, and get_agent never returns an object that has been shut down.
C23_EntriesRemovedOnShutdown ==
    /\ [][last_op'.op = "secure_shutdown" =>
            \A t \in Range(last_op'.called) :
               /\ registry'[t] = NoInstance
               /\ ~Contains(agent_order', t)]_vars
    /\ [][(last_op'.op = "get" /\ last_op'.raised = "none") =>
            last_op'.instance.running]_vars

----------------------------------------------------------------------------
(* Claims about decryption and dispatch *)

\* worker a finishes _process_task in this step
Dispatches(a) == worker[a].pc = "process" /\ worker'[a] # worker[a]

\* the payload of the task is not a token of the agents' key
CannotDecrypt(task) == task.encrypted # "absent" /\ task.payload.key # "team"

\* the task is in the clear and no branch of the agent knows its type
NoHandler(a, task) == task.encrypted = "absent" /\ task.type \notin KnownTypes(a)

\* C29: an exception raised inside a task handler is contained to that task:
\* after every dispatch the worker is back at its loop, alive.
C29_HandlerExceptionContained ==
    [][\A a \in Agents : Dispatches(a) => worker'[a].pc = "loop"]_vars

\* C26: every task received while the agent is running is eventually taken
\* from the queue and dispatched.
C26_ReceivedEventuallyDispatched ==
    \A a \in BusyAgents : \A i \in 1..MaxLive :
        (running[a] /\ \E k \in 1..Len(queue[a]) : queue[a][k].id = i)
           ~> (\E k \in 1..Len(handled[a]) : handled[a][k] = i)

\* C34: decrypt is called exactly when the task's encrypted flag is true: a
\* task with encrypted = false, or without the flag, is dispatched by its own
\* type as it is, and no decryption is attempted on it.
C34_DecryptOnlyWhenFlagged ==
    [][\A a \in Agents :
          (Dispatches(a) /\ worker[a].task.encrypted # "true") =>
             /\ effective_task(worker[a].task).error = "none"
             /\ effective_task(worker[a].task).type = worker[a].task.type
             /\ selected_handler(a, worker[a].task) =
                   IF worker[a].task.type \in KnownTypes(a)
                   THEN worker[a].task.type ELSE "none"]_vars

\* C33: a message a handler sends is enqueued into the task queue of a
\* runtime, so it is eventually available for dispatch at the recipient.
C33_SentIsEnqueued ==
    (sent # <<>>) ~> (\E a \in Agents : \E k \in 1..Len(queue[a]) :
                         queue[a][k].encrypted = "true")

\* worker a takes a task from its queue in this step
BeginsDispatch(a) == worker[a].pc # "process" /\ worker'[a].pc = "process"

\* C31: once shutdown() has set the stop flag, the worker finishes the task it
\* is dispatching and does not begin another one.
C31_NoDispatchAfterStop ==
    [][\A a \in Agents : ~running[a] => ~BeginsDispatch(a)]_vars

\* C11: a task whose payload fails to decrypt, or whose type has no handler,
\* is dropped: no handler is selected, the sentinel's state is untouched and
\* no message is sent, the worker is back at its loop with the rest of the
\* queue intact, and receive accepts tasks whatever an earlier task contained.
C11_UnhandledTaskDropped ==
    /\ [][\A a \in Agents :
            (Dispatches(a) /\ (CannotDecrypt(worker[a].task)
                                  \/ NoHandler(a, worker[a].task))) =>
               /\ selected_handler(a, worker[a].task) = "none"
               /\ UNCHANGED <<threat_level, active_countermeasures,
                              monitoring_intervals, executed, jobs, queue>>
               /\ sent' = <<>> \/ sent' = sent
               /\ worker'[a].pc = "loop"]_vars
    /\ [](next_id <= MaxSealed =>
             \A a \in BusyAgents : \A k \in SealedKinds(a) :
                ENABLED Receive(a, k))

\* the sentinel has dropped a task it could not decrypt and is dispatching
\* the task received after it
C11_Witness ==
    /\ last_op.op = "dispatch"
    /\ last_op.agent = "sentinel"
    /\ CannotDecrypt(last_op.task)
    /\ worker["sentinel"].pc = "process"
    /\ worker["sentinel"].task.id > last_op.task.id

\* C12: when a task with encrypted = true and payload encrypt("ping") is
\* dispatched, the handler of the task's type is invoked and sees "ping".
C12_HandlerSeesPlaintext ==
    [][\A a \in Agents :
          (Dispatches(a) /\ worker[a].task.encrypted = "true"
                         /\ worker[a].task.payload = encrypt("team", Ping)) =>
             /\ selected_handler(a, worker[a].task) = worker[a].task.type
             /\ effective_task(worker[a].task).word = "ping"]_vars

----------------------------------------------------------------------------
(* Claims about the escalation engine *)

Active(measures) == Range(measures) \subseteq Range(active_countermeasures)

UpdatingOps == {"update", "threat_alert", "suspicious_activity"}

Count(seq, x) == Cardinality({i \in 1..Len(seq) : seq[i] = x})

LockdownNotices(msgs) ==
    Cardinality({i \in 1..Len(msgs) : msgs[i].type = "lockdown_activated"})

\* the actions _activate_lockdown runs
LockdownActions == {"freeze_assets", "enable_logging", "backup_critical"}

C25_WitnessRefused ==
    /\ last_op.op = "decrypt"
    /\ last_op.made_by = "nobody"
    /\ last_op.plain = Text("invalid_encrypted_data")
    /\ last_op.result.raised

\* C24: every message built with encrypted = true carries a token made by
\* encrypt, which is not the plaintext and which decrypts to the serialised
\* payload.
C24_EncryptedMeansCiphertext ==
    \A i \in 1..Len(sent) :
        sent[i].encrypted =>
           /\ sent[i].payload.key \in Keys
           /\ sent[i].payload = encrypt("team", sent[i].payload.text)
           /\ sent[i].payload # sent[i].payload.text
           /\ ~decrypt("team", sent[i].payload).raised
           /\ decrypt("team", sent[i].payload).text.object.type = sent[i].type

\* a handler has built an encrypted message
C24_Witness ==
    /\ last_op.op = "suspicious_activity"
    /\ sent # <<>>
    /\ sent[Len(sent)].encrypted
    /\ sent[Len(sent)].type = "security_alert"

\* the message a handler built last
LastSent(s) == s[Len(s)]

\* C27: a suspicious-activity report of severity s adds s to the threat level
\* (up to the maximum) and ends with a security alert to the Commander whose
\* content carries the level after the update.
C27_ReportUpdatesAndAlerts ==
    [][last_op'.op = "suspicious_activity" =>
          /\ last_op'.level = threat_level
          /\ threat_level' = Min(MaxLevel, threat_level + last_op'.severity)
          /\ sent' # <<>>
          /\ LastSent(sent').to = "Commander"
          /\ LastSent(sent').type = "security_alert"
          /\ LastSent(sent').threat_level = threat_level'
          /\ decrypt("team", LastSent(sent').payload).text.object.content
                = [threat_level |-> threat_level']]_vars

\* from level 0 a report of severity 5 has left the level at 5, alert sent
C27_Witness ==
    /\ last_op.op = "suspicious_activity"
    /\ last_op.severity = 5
    /\ last_op.level = 0
    /\ threat_level = 5
    /\ sent # <<>>
    /\ LastSent(sent).type = "security_alert"
    /\ LastSent(sent).threat_level = 5

\* C28: a reconfiguration of the sentinel's monitoring leaves the jobs of the
\* other agents registered, with their due times unchanged.
C28_OtherAgentsJobsKept ==
    [][\A i \in 1..Len(jobs) :
          jobs[i].owner # "sentinel" =>
             \E j \in 1..Len(jobs') : jobs'[j] = jobs[i]]_vars

\* C30: after an update that changes the threat level the job list holds
\* exactly one job per monitoring category, registered now at the category's
\* current interval, and nothing else.
C30_ReconfiguredWholesale ==
    [][(last_op'.op = "update" /\ threat_level' # threat_level) =>
          /\ Len(jobs') = Len(Categories)
          /\ \A i \in 1..Len(Categories) :
                /\ jobs'[i].owner = "sentinel"
                /\ jobs'[i].cb = Categories[i]
                /\ jobs'[i].interval = monitoring_intervals'[Categories[i]]
                /\ jobs'[i].next_run = now' + jobs'[i].interval]_vars

\* an update has changed the level and the four monitoring jobs are the list
C30_Witness ==
    /\ last_op.op = "update"
    /\ last_op.level # threat_level
    /\ Len(jobs) = Len(Categories)
    /\ \A i \in 1..Len(jobs) : jobs[i].owner = "sentinel"
    /\ monitoring_intervals # base_intervals

\* the level has been changed by an update in this step
LevelChanged == last_op'.op \in UpdatingOps /\ threat_level' # threat_level

\* C35 (as claimed): whenever an update changes the level, every category's
\* interval becomes max(1, base * max(0.1, 1 - level * 0.05)), here with both
\* sides multiplied by 100; every interval is at least 1 in every state.
C35_IntervalsExact ==
    /\ [][LevelChanged =>
            \A c \in CategorySet :
               100 * monitoring_intervals'[c] =
                  Max(100, base_intervals[c]
                              * Max(10, 100 - 5 * threat_level'))]_vars
    /\ [](\A c \in CategorySet : monitoring_intervals[c] >= 1)

\* C35 (amended): whenever an update changes the level, every category's
\* interval becomes max(1, int(base * max(0.1, 1 - level * 0.05))): the
\* product is truncated to a whole number of seconds (in double arithmetic,
\* which for integrity at level -62 gives 122, one below the exact product);
\* every interval is at least 1 in every state.
C35_IntervalsTruncated ==
    /\ [][LevelChanged =>
            \A c \in CategorySet :
               LET exact == (base_intervals[c]
                                * Max(10, 100 - 5 * threat_level')) \div 100
               IN monitoring_intervals'[c] =
                     Max(1, IF c = "integrity" /\ threat_level' = -62
                            THEN exact - 1 ELSE exact)]_vars
    /\ [](\A c \in CategorySet : monitoring_intervals[c] >= 1)

\* an update to level 5 has left the intervals at 3, 7, 11 and 22 seconds,
\* the truncations of 3.75, 7.5, 11.25 and 22.5
C35_Witness ==
    /\ last_op.op = "update"
    /\ last_op.level = 0
    /\ threat_level = 5
    /\ monitoring_intervals["network"] = 3
    /\ monitoring_intervals["process"] = 7
    /\ monitoring_intervals["performance"] = 11
    /\ monitoring_intervals["integrity"] = 22

\* C40: activating the enhanced_monitoring countermeasure leaves the
\* intervals at network 1, process 2, performance 5 and integrity 10, with
\* the monitoring jobs registered at those intervals.
C40_EnhancedIntervals ==
    [][(Contains(active_countermeasures', "enhanced_monitoring")
           /\ ~Contains(active_countermeasures, "enhanced_monitoring")) =>
          /\ monitoring_intervals' = enhanced_intervals
          /\ \A c \in CategorySet :
                \E i \in 1..Len(jobs') :
                   /\ jobs'[i].cb = c
                   /\ jobs'[i].interval = enhanced_intervals[c]]_vars

C14_ActiveSetOnlyGrows ==
    [][/\ Len(active_countermeasures') >= Len(active_countermeasures)
       /\ SubSeq(active_countermeasures', 1, Len(active_countermeasures))
             = active_countermeasures
       /\ (last_op'.op = "update" /\ last_op'.delta = -100) =>
             active_countermeasures' = active_countermeasures]_vars

\* update(-100) was applied at level 10 with countermeasures active
C14_Witness ==
    /\ last_op.op = "update"
    /\ last_op.delta = -100
    /\ last_op.level = MaxLevel
    /\ threat_level < 0
    /\ Active(LockdownMeasures)

C16_ActivateOnce ==
    /\ NoDuplicates(active_countermeasures)
    /\ \A m \in MeasureActions : executed[m] <= 1

\* the isolation measures were activated by an alert and the lockdown, which
\* asks for them again, ran afterwards
C16_Witness ==
    /\ executed["isolate_network"] = 1
    /\ executed["freeze_assets"] = 1
    /\ Active(LockdownMeasures)

\* C17: after lockdown is activated, 'lockdown' is in active_countermeasures
\* and the network-isolation action has been executed.
C17_LockdownTaggedAndIsolated ==
    [][last_op'.op = "lockdown" =>
          /\ Contains(active_countermeasures', "lockdown")
          /\ executed'["isolate_network"] >= 1]_vars

\* C18: update(delta) sets the level to clamp(level + delta, 0, 10) for every
\* level in 0..10.
C18_UpdateIsClamp ==
    [][(last_op'.op = "update" /\ threat_level \in 0..MaxLevel) =>
          threat_level' =
             Max(0, Min(MaxLevel, threat_level + last_op'.delta))]_vars

\* C19: an update with a delta that is not a number changes neither the
\* level nor the monitoring intervals nor the active countermeasures, and no
\* error leaves the update.
C19_InvalidDeltaIgnored ==
    [][last_op'.op = "update_str" =>
          /\ UNCHANGED <<threat_level, monitoring_intervals,
                         active_countermeasures>>
          /\ ~last_op'.raised]_vars


\* C1: after every update(delta), for arbitrary integer deltas, the threat
\* level is in [0,10].
C1_LevelInRange == threat_level \in 0..MaxLevel

\* C2 (as claimed): after every update of the level, a resulting level >= 8
\* has the full lockdown set active, a resulting level >= 4 has
\* enhanced_monitoring and process_restrictions active, and below 4 the
\* active countermeasures are unchanged.
C2_LevelThresholds ==
    [][last_op'.op \in UpdatingOps =>
        /\ threat_level' >= 8 => Active(LockdownMeasures)'
        /\ threat_level' >= 4 => Active(EnhanceMeasures)'
        /\ threat_level' < 4 =>
              active_countermeasures' = active_countermeasures]_vars

\* C2 (amended): the policy belongs to the handlers. After a threat alert a
\* resulting level >= 7 has the lockdown measures active, a level in 4..6 has
\* isolate_network and suspend_non_critical active, a lower level changes
\* nothing. After a suspicious-activity report the reported severity decides:
\* >= 8 lockdown measures, 5..7 enhanced_monitoring and process_restrictions,
\* below 5 no change. A bare update never changes the active countermeasures.
C2_HandlerThresholds ==
    [][/\ last_op'.op = "threat_alert" =>
            IF threat_level' >= 7 THEN Active(LockdownMeasures)'
            ELSE IF threat_level' >= 4 THEN Active(IsolateMeasures)'
            ELSE active_countermeasures' = active_countermeasures
       /\ last_op'.op = "suspicious_activity" =>
            IF last_op'.severity >= 8 THEN Active(LockdownMeasures)'
            ELSE IF last_op'.severity >= 5 THEN Active(EnhanceMeasures)'
            ELSE active_countermeasures' = active_countermeasures
       /\ last_op'.op = "update" =>
            active_countermeasures' = active_countermeasures]_vars

\* a report of severity below 5 has raised the level to 8 or more and no
\* countermeasure is active
C2_Witness ==
    /\ last_op.op = "suspicious_activity"
    /\ last_op.severity < 5
    /\ threat_level >= 8
    /\ active_countermeasures = <<>>

====
